---- MODULE Spec2Model ----
(***************************************************************************)
(* Model of server/main.py: the two FastAPI handlers (recognise, confirm)  *)
(* and lookup_performer, the identity resolution they share.               *)
(*                                                                         *)
(* Strings are sequences of one-character strings, so that                 *)
(* str.split("=")[0] is computed and not assumed.  Raw distances are       *)
(* integers in units of 1/256 (exactly representable as floats), rounded   *)
(* distances are integers in hundredths; round(x, 2) is Python's           *)
(* round-half-even on the exact value.  Subtracting 0.5 is exact in the    *)
(* model (floating-point error of the subtraction is not modelled).        *)
(***************************************************************************)
EXTENDS Integers, Sequences, FiniteSets, TLC

\* ---------------------------------------------------------------- bounds
MaxHits == 3
MaxConcHits == 2
NumRequests == 2

\* ------------------------------------------------------ program constants
vector_size == 512
NNS_K == 50
TOP_N == 10
BONUS == 50

Requests == 1..NumRequests

\* ---------------------------------------------------------------- strings
\* str.split("=")[0]
RECURSIVE SplitFirst(_)
SplitFirst(s) ==
  IF s = <<>> \/ Head(s) = "=" THEN <<>>
  ELSE <<Head(s)>> \o SplitFirst(Tail(s))

\* ------------------------------------------------------------------ lists
\* as GetItem, but an index past the end wraps around instead of raising
GetItem_wrap(list, p) ==
  IF list = <<>> THEN [ok |-> FALSE, value |-> <<>>]
  ELSE [ok |-> TRUE, value |-> list[(p % Len(list)) + 1]]

\* Python list indexing, list[p]: IndexError outside -len..len-1, and a
\* negative p counts from the end.
GetItem(list, p) ==
  IF p >= 0 /\ p < Len(list) THEN [ok |-> TRUE, value |-> list[p + 1]]
  ELSE IF p < 0 /\ p >= 0 - Len(list) THEN [ok |-> TRUE, value |-> list[Len(list) + p + 1]]
  ELSE [ok |-> FALSE, value |-> <<>>]

\* round(distance, 2), from 1/256 units to hundredths
Round2(distance) ==
  LET n == distance * 100
      q == n \div 256
      rem == n % 256
  IN  IF 2 * rem < 256 THEN q
      ELSE IF 2 * rem > 256 THEN q + 1
      ELSE IF q % 2 = 0 THEN q ELSE q + 1

Min(a, b) == IF a < b THEN a ELSE b

\* ------------------------------------------------- data loaded at startup
\* face.json: one entry per gallery slot, "<identity>=<per-slot text>"
Gallery ==
  << <<"a", "=", "1">>, <<"b">>, <<"a", "=", "2">>, <<"c", "=", "1", "=", "2">>,
     <<"d", "=", "1">>, <<"e", "=", "1">>, <<"f", "=", "1">>, <<"g", "=", "1">>,
     <<"h", "=", "1">>, <<"i", "=", "1">>, <<"j", "=", "1">>, <<"k", "=", "1">>,
     <<"l", "=", "1">>, <<"d", "=", "2">> >>

\* performers.json: sparse, identity -> name and image
Performers ==
  [id \in {<<"a">>, <<"c">>, <<"e">>, <<"g">>, <<"i">>, <<"k">>, <<"z">>} |->
     [name |-> <<"N">> \o id, image |-> <<"I">> \o id]]

Queries == {"u", "v"}

\* The slots an index may hold: the index and face.json may come from
\* different galleries, so a slot may lie past the end of face.json.
NoSlot == Len(Gallery)

Ascending(h) == \A j \in 1..(Len(h) - 1) : h[j].distance <= h[j + 1].distance

DistinctSlots(h) == \A j, k \in 1..Len(h) : j # k => h[j].p # h[k].p

HitSeqs(slots, dists, maxlen) ==
  UNION { { h \in [1..n -> [p : slots, distance : dists]] :
              Ascending(h) /\ DistinctSlots(h) } : n \in 0..maxlen }

SmallHits == HitSeqs({0, 1, 2, 3, NoSlot}, {128, 256, 257, 288}, MaxHits)

ConcHits == HitSeqs({0, 1, 2, NoSlot}, {256}, MaxConcHits)

\* Long answers: a rotation of the gallery under three distance profiles
\* (all equal; steps of 0.25, so that the 0.5 bonus produces ties; steps
\* of 9/256, so that it does not).
Profile(k, j) ==
  IF k = 1 THEN 256 ELSE IF k = 2 THEN 64 * j ELSE 256 + 9 * j

BigHits ==
  { [j \in 1..n |-> [p |-> (s + j - 1) % Len(Gallery), distance |-> Profile(k, j)]] :
      s \in 0..(Len(Gallery) - 1), n \in (TOP_N - 1)..Len(Gallery), k \in 1..3 }

\* A second query point sees the same neighbours in the opposite order.
Mirror(h) ==
  [j \in 1..Len(h) |-> [p |-> h[Len(h) + 1 - j].p, distance |-> h[j].distance]]

\* ------------------------------------------------------------------ state
VARIABLES
  index,          \* the Annoy index: query point -> neighbours, nearest first
  ANNOY_INDEX,    \* face.json
  PERFORMER_DB,   \* performers.json
  uuids,          \* number of uuid4 values drawn so far
  annCalled,      \* per request: index.get_nns_by_vector was called
  pc, entry, vector, uid, nns, i, persons, result, response, status

shared == <<index, ANNOY_INDEX, PERFORMER_DB>>
vars == <<index, ANNOY_INDEX, PERFORMER_DB, uuids, annCalled,
          pc, entry, vector, uid, nns, i, persons, result, response, status>>

NoResult == [id |-> 0, performers |-> <<>>]

InitWith(family) ==
  /\ \E h \in family : index = [q \in Queries |-> IF q = "u" THEN h ELSE Mirror(h)]
  /\ ANNOY_INDEX = Gallery
  /\ PERFORMER_DB = Performers
  /\ uuids = 0
  /\ annCalled = [r \in Requests |-> FALSE]
  /\ pc = [r \in Requests |-> "idle"]
  /\ entry = [r \in Requests |-> "none"]
  /\ vector = [r \in Requests |-> [len |-> 0, q |-> "u"]]
  /\ uid = [r \in Requests |-> 0]
  /\ nns = [r \in Requests |-> <<>>]
  /\ i = [r \in Requests |-> 0]
  /\ persons = [r \in Requests |-> <<>>]
  /\ result = [r \in Requests |-> NoResult]
  /\ response = [r \in Requests |-> NoResult]
  /\ status = [r \in Requests |-> [code |-> 0, detail |-> ""]]

Init == InitWith(SmallHits \cup BigHits)

InitConc == InitWith(ConcHits)

\* ------------------------------------------------------- lookup_performer
InPersons(ps, id) == \E j \in 1..Len(ps) : ps[j].id = id

\* persons[id] = {...} for a new id, with name and image when known
NewPerson(id, distance) ==
  IF id \in DOMAIN PERFORMER_DB
  THEN [id |-> id, distance |-> Round2(distance), hits |-> 1,
        name |-> PERFORMER_DB[id].name, image |-> PERFORMER_DB[id].image]
  ELSE [id |-> id, distance |-> Round2(distance), hits |-> 1]

\* as Aggregate, but a repeated hit seeds the distance again from its own
Aggregate_reseed(ps, id, distance) ==
  IF InPersons(ps, id)
  THEN [j \in 1..Len(ps) |->
          IF ps[j].id = id
          THEN [ps[j] EXCEPT !.hits = @ + 1,
                             !.distance = Round2(distance) - BONUS * ps[j].hits]
          ELSE ps[j]]
  ELSE Append(ps, NewPerson(id, distance))

\* as Aggregate, but a repeated hit is not counted
Aggregate_nocount(ps, id, distance) ==
  IF InPersons(ps, id)
  THEN [j \in 1..Len(ps) |->
          IF ps[j].id = id THEN [ps[j] EXCEPT !.distance = @ - BONUS] ELSE ps[j]]
  ELSE Append(ps, NewPerson(id, distance))

\* the loop body after id is parsed; persons is a dict, kept in insertion order
Aggregate(ps, id, distance) ==
  IF InPersons(ps, id)
  THEN [j \in 1..Len(ps) |->
          IF ps[j].id = id
          THEN [ps[j] EXCEPT !.hits = @ + 1, !.distance = @ - BONUS]
          ELSE ps[j]]
  ELSE Append(ps, NewPerson(id, distance))

\* as FreshPersons, but the dict is the one another call is filling
FreshPersons_shared(r) ==
  IF Requests = {r} THEN <<>> ELSE persons[CHOOSE o \in Requests : o # r]

\* persons = {}
FreshPersons(r) == <<>>

\* as InsertSorted, but an element goes before its equals
RECURSIVE InsertSorted_unstable(_, _)
InsertSorted_unstable(s, x) ==
  IF s = <<>> THEN <<x>>
  ELSE IF x.distance <= Head(s).distance THEN <<x>> \o s
  ELSE <<Head(s)>> \o InsertSorted_unstable(Tail(s), x)

\* sorted(..., key=lambda x: x["distance"]): a stable sort
RECURSIVE InsertSorted(_, _)
InsertSorted(s, x) ==
  IF s = <<>> THEN <<x>>
  ELSE IF x.distance < Head(s).distance THEN <<x>> \o s
  ELSE <<Head(s)>> \o InsertSorted(Tail(s), x)

\* as SortedByDistance, but the order is left as it is
SortedByDistance_none(s) == s

RECURSIVE SortedByDistance(_)
SortedByDistance(s) ==
  IF s = <<>> THEN <<>>
  ELSE InsertSorted(SortedByDistance(SubSeq(s, 1, Len(s) - 1)), s[Len(s)])

\* as Top, but nothing is cut
Top_all(s) == s

\* [:10]
Top(s) == SubSeq(s, 1, Min(TOP_N, Len(s)))

\* ------------------------------------------------------ response shaping
NA == <<"N", "/", "A">>

\* class Performer: the fields kept, and their defaults
PerformerModel(p) ==
  [id |-> p.id,
   name |-> IF "name" \in DOMAIN p THEN p.name ELSE NA,
   image |-> IF "image" \in DOMAIN p THEN p.image ELSE NA,
   distance |-> p.distance]

\* recognise declares response_model=PerformerSearch; search declares none,
\* so its return value is serialised as it is
Respond(e, res) ==
  IF e = "recognise"
  THEN [id |-> res.id,
        performers |-> [j \in 1..Len(res.performers) |-> PerformerModel(res.performers[j])]]
  ELSE res

\* ---------------------------------------------------------------- actions
\* as InvalidVectorSize, but every size passes
InvalidVectorSize_none(v) == FALSE

\* if len(obj.vector) != 512
InvalidVectorSize(v) == v.len # 512

VectorLens == {vector_size - 1, vector_size, vector_size + 1}

Fail(r, code, detail, next) ==
  /\ pc' = [pc EXCEPT ![r] = next]
  /\ status' = [status EXCEPT ![r] = [code |-> code, detail |-> detail]]

\* POST /: the upload is checked, decoded and embedded before the lookup
Recognise(r) ==
  /\ pc[r] = "idle"
  /\ entry' = [entry EXCEPT ![r] = "recognise"]
  /\ \/ /\ \E f \in {<<400, "Invalid file type">>, <<400, "Invalid image file">>,
                      <<409, "No face detected">>} : Fail(r, f[1], f[2], "rejected")
        /\ UNCHANGED vector
     \/ /\ \E q \in Queries :
             vector' = [vector EXCEPT ![r] = [len |-> vector_size, q |-> q]]
        /\ pc' = [pc EXCEPT ![r] = "lookup"]
        /\ UNCHANGED status
  /\ UNCHANGED <<shared, uuids, annCalled, uid, nns, i, persons, result, response>>

\* POST /search
Confirm(r) ==
  /\ pc[r] = "idle"
  /\ entry' = [entry EXCEPT ![r] = "search"]
  /\ \E n \in VectorLens, q \in Queries :
       LET v == [len |-> n, q |-> q] IN
       /\ vector' = [vector EXCEPT ![r] = v]
       /\ IF InvalidVectorSize(v)
          THEN Fail(r, 400, "Invalid vector size", "rejected")
          ELSE pc' = [pc EXCEPT ![r] = "lookup"] /\ UNCHANGED status
  /\ UNCHANGED <<shared, uuids, annCalled, uid, nns, i, persons, result, response>>

\* uid = uuid4(); ids, distances = index.get_nns_by_vector(vector, 50, ...)
\* Annoy raises when the vector has not the index's dimension.
Query(r) ==
  /\ pc[r] = "lookup"
  /\ uuids' = uuids + 1
  /\ uid' = [uid EXCEPT ![r] = uuids + 1]
  /\ annCalled' = [annCalled EXCEPT ![r] = TRUE]
  /\ IF vector[r].len # vector_size
     THEN /\ Fail(r, 500, "Internal Server Error", "error")
          /\ UNCHANGED <<nns, persons>>
     ELSE /\ nns' = [nns EXCEPT ![r] =
                      SubSeq(index[vector[r].q], 1, Min(NNS_K, Len(index[vector[r].q])))]
          /\ persons' = [persons EXCEPT ![r] = FreshPersons(r)]
          /\ pc' = [pc EXCEPT ![r] = "loop"]
          /\ UNCHANGED status
  /\ UNCHANGED <<shared, entry, vector, i, result, response>>

\* one iteration of: for p, distance in zip(ids, distances)
LoopStep(r) ==
  /\ pc[r] = "loop"
  /\ i[r] < Len(nns[r])
  /\ LET hit == nns[r][i[r] + 1]
         e == GetItem(ANNOY_INDEX, hit.p)
     IN  IF ~e.ok
         THEN /\ Fail(r, 500, "Internal Server Error", "error")
              /\ UNCHANGED <<i, persons>>
         ELSE /\ persons' = [persons EXCEPT ![r] =
                               Aggregate(@, SplitFirst(e.value), hit.distance)]
              /\ i' = [i EXCEPT ![r] = @ + 1]
              /\ UNCHANGED <<pc, status>>
  /\ UNCHANGED <<shared, uuids, annCalled, entry, vector, uid, nns, result, response>>

\* return {"id": uid, "performers": sorted(...)[:10]}, then the handler's response
Return(r) ==
  /\ pc[r] = "loop"
  /\ i[r] = Len(nns[r])
  /\ LET res == [id |-> uid[r], performers |-> Top(SortedByDistance(persons[r]))] IN
       /\ result' = [result EXCEPT ![r] = res]
       /\ response' = [response EXCEPT ![r] = Respond(entry[r], res)]
  /\ pc' = [pc EXCEPT ![r] = "done"]
  /\ status' = [status EXCEPT ![r] = [code |-> 200, detail |-> "OK"]]
  /\ UNCHANGED <<shared, uuids, annCalled, entry, vector, uid, nns, i, persons>>

Handle(r) ==
  \/ Recognise(r)
  \/ Confirm(r)
  \/ Query(r)
  \/ LoopStep(r)
  \/ Return(r)

\* one request at a time
Next == Handle(1)

\* any number of requests in flight, their steps interleaved
NextConc == \E r \in Requests : Handle(r)

Spec == Init /\ [][Next]_vars

SpecConc == InitConc /\ [][NextConc]_vars

\* ------------------------------------------------- vocabulary of the claims
InRange(p) == p \in 0..(Len(ANNOY_INDEX) - 1)

\* position of the first "=" of an entry, or one past its end
FirstSep(e) ==
  IF \E j \in 1..Len(e) : e[j] = "="
  THEN CHOOSE j \in 1..Len(e) : e[j] = "=" /\ \A k \in 1..(j - 1) : e[k] # "="
  ELSE Len(e) + 1

\* the identity that owns slot p
IdentityOf(p) == SubSeq(ANNOY_INDEX[p + 1], 1, FirstSep(ANNOY_INDEX[p + 1]) - 1)

Abs(x) == IF x < 0 THEN 0 - x ELSE x

\* the hundredth nearest to distance/256, the even one of two equally near
Nearest(distance) ==
  LET lo == (distance * 100) \div 256
      near(c) == Abs(c * 256 - distance * 100)
  IN  CHOOSE c \in {lo, lo + 1} :
        \A d \in {lo, lo + 1} : near(c) < near(d) \/ (near(c) = near(d) /\ (c % 2 = 0 \/ c = d))

\* positions of the hits of request r, processed so far, that belong to id
HitsOf(r, id, upto) == { k \in 1..upto : InRange(nns[r][k].p) /\ IdentityOf(nns[r][k].p) = id }

FirstSeen(r, id) == CHOOSE k \in HitsOf(r, id, Len(nns[r])) : \A m \in HitsOf(r, id, Len(nns[r])) : k <= m

Identities(r, upto) == { IdentityOf(nns[r][k].p) : k \in { m \in 1..upto : InRange(nns[r][m].p) } }

Aggregating(r) == pc[r] \in {"loop", "done"}

RECURSIVE SumHits(_)
SumHits(ps) == IF ps = <<>> THEN 0 ELSE Head(ps).hits + SumHits(Tail(ps))

Ids(ps) == { ps[j].id : j \in 1..Len(ps) }

NonDecreasing(ps) == \A j \in 1..(Len(ps) - 1) : ps[j].distance <= ps[j + 1].distance

\* ----------------------------------------------------------------- claims

\* C1: a request with a 512-long vector ends with a result unless some slot
\* of the answer has no entry in face.json; every result (as returned by
\* lookup_performer and as sent) has between 0 and 10 performers, in
\* non-decreasing order of distance.
C1_LengthAndOrder ==
  \A r \in Requests :
    /\ pc[r] = "done" =>
         /\ Len(result[r].performers) \in 0..10
         /\ NonDecreasing(result[r].performers)
         /\ Len(response[r].performers) \in 0..10
         /\ NonDecreasing(response[r].performers)
    /\ (pc[r] = "error" /\ vector[r].len = 512) =>
         \E k \in 1..Len(nns[r]) : ~InRange(nns[r][k].p)

\* more candidates than ten, and two unequal distances among the ten returned
C1_Witness ==
  \E r \in Requests :
    /\ pc[r] = "done"
    /\ Len(persons[r]) > 10
    /\ Len(result[r].performers) = 10
    /\ result[r].performers[1].distance < result[r].performers[10].distance

\* C3: at every point of the aggregation, each identity that owns a
\* processed hit has exactly one candidate, whose hits is the number of
\* processed hits of that identity and whose distance is the rounded raw
\* distance of the identity's first hit minus 0.5 for each later hit; there
\* is no other candidate.
C3_Aggregation ==
  \A r \in Requests : Aggregating(r) =>
    /\ Ids(persons[r]) = Identities(r, i[r])
    /\ \A id \in Identities(r, i[r]) :
         /\ Cardinality({ j \in 1..Len(persons[r]) : persons[r][j].id = id }) = 1
         /\ \A j \in 1..Len(persons[r]) : persons[r][j].id = id =>
              /\ persons[r][j].hits = Cardinality(HitsOf(r, id, i[r]))
              /\ persons[r][j].distance =
                    Nearest(nns[r][FirstSeen(r, id)].distance) - 50 * (persons[r][j].hits - 1)

\* hits (A, 1.0), (B, 1.0), (A2, 1.125): X has distance 0.5 and 2 hits, Y has
\* distance 1.0 and 1 hit, and the result is [X, Y]
C3_Witness ==
  \E r \in Requests :
    /\ pc[r] = "done"
    /\ nns[r] = << [p |-> 0, distance |-> 256], [p |-> 1, distance |-> 256],
                   [p |-> 2, distance |-> 288] >>
    /\ Len(result[r].performers) = 2
    /\ result[r].performers[1].id = <<"a">>
    /\ result[r].performers[1].distance = 50
    /\ result[r].performers[1].hits = 2
    /\ result[r].performers[2].id = <<"b">>
    /\ result[r].performers[2].distance = 100
    /\ result[r].performers[2].hits = 1

\* C4: the result has min(10, number of candidates) performers, all of them
\* candidates, and no candidate left out has a distance strictly smaller
\* than one that is in.
C4_Truncation ==
  \A r \in Requests : pc[r] = "done" =>
    LET perf == result[r].performers
        d == Cardinality(Identities(r, Len(nns[r])))
        out == { j \in 1..Len(persons[r]) : persons[r][j].id \notin Ids(perf) }
    IN  /\ Len(perf) = IF d > 10 THEN 10 ELSE d
        /\ \A j \in 1..Len(perf) : \E k \in 1..Len(persons[r]) : perf[j] = persons[r][k]
        /\ \A j \in out : \A k \in 1..Len(perf) :
              ~(persons[r][j].distance < perf[k].distance)

\* more than ten identities, and a candidate that is left out was encountered
\* before one that is in
C4_Witness ==
  \E r \in Requests :
    /\ pc[r] = "done"
    /\ Cardinality(Identities(r, Len(nns[r]))) > 10
    /\ Len(result[r].performers) = 10
    /\ \E j, k \in 1..Len(persons[r]) :
         /\ j < k
         /\ persons[r][j].id \notin Ids(result[r].performers)
         /\ persons[r][k].id \in Ids(result[r].performers)

\* C2: the index is never queried with a vector whose length is not 512, on
\* either entry point; a vector of another length sent to /search is answered
\* 400 "Invalid vector size", with no index query and no result.
C2_InvalidVectorSize ==
  \A r \in Requests :
    /\ annCalled[r] => vector[r].len = 512
    /\ pc[r] \in {"lookup", "loop", "done", "error"} => vector[r].len = 512
    /\ (entry[r] = "search" /\ vector[r].len # 512) =>
         /\ pc[r] = "rejected"
         /\ status[r] = [code |-> 400, detail |-> "Invalid vector size"]
         /\ ~annCalled[r]
         /\ result[r] = NoResult
         /\ response[r] = NoResult

\* a vector of 513 numbers was rejected
C2_Witness ==
  \E r \in Requests :
    /\ entry[r] = "search"
    /\ vector[r].len = 513
    /\ pc[r] = "rejected"

\* C5: on both entry points, a performer whose identity is absent from
\* performers.json is sent with name "N/A", image "N/A" and its distance.
C5_MetadataDefault ==
  \A r \in Requests : pc[r] = "done" =>
    /\ Len(response[r].performers) = Len(result[r].performers)
    /\ \A j \in 1..Len(result[r].performers) :
         result[r].performers[j].id \notin DOMAIN PERFORMER_DB =>
           LET p == response[r].performers[j] IN
           /\ p.id = result[r].performers[j].id
           /\ p.distance = result[r].performers[j].distance
           /\ "name" \in DOMAIN p
           /\ "image" \in DOMAIN p
           /\ p.name = <<"N", "/", "A">>
           /\ p.image = <<"N", "/", "A">>

\* C5 on the image entry point alone
C5_MetadataDefault_recognise ==
  \A r \in Requests : (pc[r] = "done" /\ entry[r] = "recognise") =>
    /\ Len(response[r].performers) = Len(result[r].performers)
    /\ \A j \in 1..Len(result[r].performers) :
         result[r].performers[j].id \notin DOMAIN PERFORMER_DB =>
           LET p == response[r].performers[j] IN
           /\ p.id = result[r].performers[j].id
           /\ p.distance = result[r].performers[j].distance
           /\ "name" \in DOMAIN p
           /\ "image" \in DOMAIN p
           /\ p.name = <<"N", "/", "A">>
           /\ p.image = <<"N", "/", "A">>

\* C6: a request whose answer holds a slot with no entry in face.json never
\* ends with a result; every hit before the loop position had an entry and
\* was aggregated under its own identity; the request fails with status 500
\* exactly at the first such slot, wherever it is.
C6_ConsistencyFailure ==
  \A r \in Requests :
    /\ pc[r] = "done" =>
         /\ \A k \in 1..Len(nns[r]) : InRange(nns[r][k].p)
         /\ i[r] = Len(nns[r])
    /\ pc[r] \in {"loop", "done", "error"} =>
         /\ \A k \in 1..i[r] : InRange(nns[r][k].p)
         /\ Ids(persons[r]) = { IdentityOf(nns[r][k].p) : k \in 1..i[r] }
    /\ (pc[r] = "error" /\ vector[r].len = 512) =>
         /\ i[r] < Len(nns[r])
         /\ ~InRange(nns[r][i[r] + 1].p)
         /\ status[r].code = 500
         /\ result[r] = NoResult
         /\ response[r] = NoResult

\* the request failed at a slot that is not the first of the answer
C6_Witness ==
  \E r \in Requests :
    /\ pc[r] = "error"
    /\ i[r] >= 1
    /\ ~InRange(nns[r][i[r] + 1].p)

\* C9: performers of equal distance are in the order in which their
\* identities were first encountered, and a candidate left out that has the
\* distance of one that is in was first encountered after it.
C9_StableTies ==
  \A r \in Requests : pc[r] = "done" =>
    LET perf == result[r].performers IN
    /\ \A j, k \in 1..Len(perf) :
         (j < k /\ perf[j].distance = perf[k].distance) =>
           FirstSeen(r, perf[j].id) < FirstSeen(r, perf[k].id)
    /\ \A j \in 1..Len(persons[r]) : \A k \in 1..Len(perf) :
         (persons[r][j].id \notin Ids(perf) /\ persons[r][j].distance = perf[k].distance) =>
           FirstSeen(r, perf[k].id) < FirstSeen(r, persons[r][j].id)

\* a tie at the cut that the bonus made: the tenth performer and a candidate
\* left out have the same distance and not the same number of hits
C9_Witness ==
  \E r \in Requests :
    /\ pc[r] = "done"
    /\ Len(result[r].performers) = 10
    /\ \E j \in 1..Len(persons[r]) :
         /\ persons[r][j].id \notin Ids(result[r].performers)
         /\ persons[r][j].distance = result[r].performers[10].distance
         /\ persons[r][j].hits # result[r].performers[10].hits

\* C10: no identity is twice in performers, every performer's identity is
\* the text before the first "=" of the entry of some slot of the answer, and
\* at every point of the aggregation the hits of all candidates add up to the
\* number of hits processed.
C10_HitConservation ==
  \A r \in Requests :
    /\ Aggregating(r) => SumHits(persons[r]) = i[r]
    /\ pc[r] = "done" =>
         LET perf == result[r].performers IN
         /\ \A j, k \in 1..Len(perf) : perf[j].id = perf[k].id => j = k
         /\ \A j \in 1..Len(perf) :
              \E k \in 1..Len(nns[r]) :
                 /\ InRange(nns[r][k].p)
                 /\ perf[j].id = IdentityOf(nns[r][k].p)

\* a result in which some performer has more than one hit, from an entry
\* with two separators
C10_Witness ==
  \E r \in Requests :
    /\ pc[r] = "done"
    /\ \E j \in 1..Len(result[r].performers) : result[r].performers[j].hits > 1
    /\ \E j \in 1..Len(result[r].performers) : result[r].performers[j].id = <<"c">>

\* lookup_performer run from start to end with nothing in between
RECURSIVE AloneFrom(_, _)
AloneFrom(ps, h) ==
  IF h = <<>> THEN [ok |-> TRUE, persons |-> ps]
  ELSE LET e == GetItem(ANNOY_INDEX, Head(h).p) IN
       IF ~e.ok THEN [ok |-> FALSE, persons |-> ps]
       ELSE AloneFrom(Aggregate(ps, SplitFirst(e.value), Head(h).distance), Tail(h))

Alone(q) ==
  LET a == AloneFrom(<<>>, SubSeq(index[q], 1, Min(NNS_K, Len(index[q]))))
  IN  [ok |-> a.ok, performers |-> Top(SortedByDistance(a.persons))]

\* C7: two finished calls with the same vector have the same performers (as
\* returned, and as sent when they came through the same entry point) and
\* different ids.
C7_Idempotence ==
  \A r1, r2 \in Requests :
    (r1 # r2 /\ pc[r1] = "done" /\ pc[r2] = "done" /\ vector[r1] = vector[r2]) =>
      /\ result[r1].performers = result[r2].performers
      /\ result[r1].id # result[r2].id
      /\ response[r1].id # response[r2].id
      /\ entry[r1] = entry[r2] => response[r1].performers = response[r2].performers

\* two finished calls with the same vector, whose result has a performer
\* with two hits
C7_Witness ==
  \E r1, r2 \in Requests :
    /\ r1 # r2
    /\ pc[r1] = "done"
    /\ pc[r2] = "done"
    /\ vector[r1] = vector[r2]
    /\ \E j \in 1..Len(result[r1].performers) : result[r1].performers[j].hits = 2

C8_AsAlone ==
  \A r \in Requests :
    /\ pc[r] = "done" =>
         /\ Alone(vector[r].q).ok
         /\ result[r].performers = Alone(vector[r].q).performers
    /\ (pc[r] = "error" /\ vector[r].len = 512) => ~Alone(vector[r].q).ok

\* C8: no step of any request changes the index, face.json or
\* performers.json, and under every interleaving each request ends as it
\* would have ended alone: with the same performers, or with the same failure.
C8_ConcurrentSafety == [][UNCHANGED shared]_vars /\ []C8_AsAlone

\* a call that started second has finished, with a performer of two hits,
\* while the call that started first is in the middle of its loop
C8_Witness ==
  \E r1, r2 \in Requests :
    /\ pc[r1] = "done"
    /\ pc[r2] = "loop"
    /\ uid[r2] < uid[r1]
    /\ i[r2] >= 1
    /\ i[r2] < Len(nns[r2])
    /\ \E j \in 1..Len(result[r1].performers) : result[r1].performers[j].hits = 2

====
